---------------------------- MODULE Spec2Model ----------------------------
(***************************************************************************)
(* Digital Audio Visualizer (PCM sampling / quantization demo).            *)
(*                                                                         *)
(*   utils/audioUtils      quantizeValue, getQuantizationError,            *)
(*                         formatBinary                (src/unnamed/part_002) *)
(*   hooks/useAudioProcessor  loadFile, play, stop     (src/unnamed/part_001) *)
(*   App                   parameters, button, table   (src/unnamed/part_000) *)
(*   components/WaveformCanvas  the drawing effect                         *)
(*                                                                         *)
(* Amplitudes are exact rationals over arbitrary-size naturals (limbs of   *)
(* 15 bits), so that 2^31 and 2^32 levels are computed without wrapping.   *)
(* The loop variable of the sampling loop is an IEEE-754 double: its       *)
(* additions round to 53 significant bits (round to nearest, ties to even).*)
(***************************************************************************)
EXTENDS Integers, Sequences, FiniteSets, TLC

VARIABLES
    \* harness applying the pure functions of utils/audioUtils
    qValue, qBits, qOut, qErr, qBin, qPc,
    \* useAudioProcessor
    audioBuffer, isPlaying, sourceNodeRef, sources, requests,
    \* App state
    sampleRateCtx, bitDepth, zoom,
    showAnalog, showSampling, showQuantization, showError,
    \* WaveformCanvas effect: position, loop variable, iteration count,
    \* buffer index read and primitives drawn by the last iteration
    pc, i, k, read, drawn

quantVars == <<qValue, qBits, qOut, qErr, qBin, qPc>>
hookVars == <<audioBuffer, isPlaying, sourceNodeRef, sources, requests>>
paramVars == <<sampleRateCtx, bitDepth, zoom>>
toggleVars == <<showAnalog, showSampling, showQuantization, showError>>
canvasVars == <<pc, i, k, read, drawn>>
vars == <<quantVars, hookVars, paramVars, toggleVars, canvasVars>>

---------------------------------------------------------------------------
(* Bounds of the model *)

\* sample amplitudes are multiples of 1/AmpDen
AmpDen == 8
\* inputs of the quantizer range over -(AmpDen+AmpOver)..(AmpDen+AmpOver)
AmpOver == 2
\* bit depths 1..MaxBitDepth are explored next to the program's own values
MaxBitDepth == 2
\* loadFile calls in one behaviour
MaxLoads == 2
\* source nodes created by play in one behaviour
MaxSources == 3
\* lengths of the decoded buffers
ClickLen == 30
ToneLen == 300
ClipLen == 4410

---------------------------------------------------------------------------
(* Naturals of any size: little-endian limbs, no leading zero limb *)

BASE == 2^15

RECURSIVE BNorm(_)
BNorm(x) ==
    IF x = <<>> THEN <<>>
    ELSE IF x[Len(x)] = 0 THEN BNorm(SubSeq(x, 1, Len(x) - 1)) ELSE x

RECURSIVE BOfInt(_)
BOfInt(n) == IF n = 0 THEN <<>> ELSE <<n % BASE>> \o BOfInt(n \div BASE)

RECURSIVE BToInt(_)
BToInt(x) == IF x = <<>> THEN 0 ELSE Head(x) + BASE * BToInt(Tail(x))

Limb(x, j) == IF j <= Len(x) THEN x[j] ELSE 0

RECURSIVE BAddFrom(_, _, _, _)
BAddFrom(x, y, j, c) ==
    IF j > Len(x) /\ j > Len(y)
    THEN (IF c = 0 THEN <<>> ELSE <<c>>)
    ELSE LET s == Limb(x, j) + Limb(y, j) + c
         IN  <<s % BASE>> \o BAddFrom(x, y, j + 1, s \div BASE)

BAdd(x, y) == BAddFrom(x, y, 1, 0)

RECURSIVE BCmpFrom(_, _, _)
BCmpFrom(x, y, j) ==
    IF j = 0 THEN 0
    ELSE IF x[j] > y[j] THEN 1
    ELSE IF x[j] < y[j] THEN -1
    ELSE BCmpFrom(x, y, j - 1)

BCmp(x, y) ==
    IF Len(x) > Len(y) THEN 1
    ELSE IF Len(x) < Len(y) THEN -1
    ELSE BCmpFrom(x, y, Len(x))

RECURSIVE BSubFrom(_, _, _, _)
BSubFrom(x, y, j, b) ==
    IF j > Len(x) THEN <<>>
    ELSE LET d == x[j] - Limb(y, j) - b
         IN  IF d < 0 THEN <<d + BASE>> \o BSubFrom(x, y, j + 1, 1)
             ELSE <<d>> \o BSubFrom(x, y, j + 1, 0)

\* x - y for x >= y
BSub(x, y) == BNorm(BSubFrom(x, y, 1, 0))

RECURSIVE BMulSmallFrom(_, _, _, _)
BMulSmallFrom(x, m, j, c) ==
    IF j > Len(x) THEN (IF c = 0 THEN <<>> ELSE <<c>>)
    ELSE LET s == x[j] * m + c
         IN  <<s % BASE>> \o BMulSmallFrom(x, m, j + 1, s \div BASE)

\* x * m for a limb m
BMulSmall(x, m) == IF m = 0 THEN <<>> ELSE BMulSmallFrom(x, m, 1, 0)

BShift(x, n) == IF x = <<>> THEN <<>> ELSE [j \in 1..n |-> 0] \o x

RECURSIVE BMulFrom(_, _, _)
BMulFrom(x, y, j) ==
    IF j > Len(y) THEN <<>>
    ELSE BAdd(BShift(BMulSmall(x, y[j]), j - 1), BMulFrom(x, y, j + 1))

BMul(x, y) == IF Len(y) = 1 THEN BMulSmall(x, y[1]) ELSE BMulFrom(x, y, 1)

\* short division by a one-limb divisor y, most significant limb first:
\* [q |-> quotient limbs (least significant first), r |-> remainder]
RECURSIVE BDivFrom(_, _, _, _)
BDivFrom(x, y, j, r) ==
    IF j = 0 THEN [q |-> <<>>, r |-> r]
    ELSE LET cur  == r * BASE + x[j]
             rest == BDivFrom(x, y, j - 1, cur % y)
         IN  [q |-> Append(rest.q, cur \div y), r |-> rest.r]

\* x divided by y, for y below BASE (every denominator that is divided by
\* is a small multiple of AmpDen)
BDivMod(x, y) ==
    LET res == BDivFrom(x, BToInt(y), Len(x), 0)
    IN  [q |-> BNorm(res.q), r |-> res.r]

\* 2^n
BPow2(n) ==
    [j \in 1..(n \div 15 + 1) |-> IF j = n \div 15 + 1 THEN 2^(n % 15) ELSE 0]

---------------------------------------------------------------------------
(* JavaScript numbers holding amplitudes: exact rationals                  *)
(* [neg, num, den], den > 0, not reduced; compared with REq / RCmp         *)

Rat(neg, num, den) == [neg |-> neg /\ num # <<>>, num |-> num, den |-> den]

ROfInt(n) == Rat(n < 0, BOfInt(IF n < 0 THEN -n ELSE n), <<1>>)

RFrac(n, d) == Rat(n < 0, BOfInt(IF n < 0 THEN -n ELSE n), BOfInt(d))

ROfNat(b) == Rat(FALSE, b, <<1>>)

RNeg(a) == Rat(~a.neg, a.num, a.den)

RAdd(a, b) ==
    LET x == BMul(a.num, b.den)
        y == BMul(b.num, a.den)
        d == BMul(a.den, b.den)
    IN  IF a.neg = b.neg THEN Rat(a.neg, BAdd(x, y), d)
        ELSE IF BCmp(x, y) >= 0 THEN Rat(a.neg, BSub(x, y), d)
        ELSE Rat(b.neg, BSub(y, x), d)

RSub(a, b) == RAdd(a, RNeg(b))

RMul(a, b) == Rat(a.neg # b.neg, BMul(a.num, b.num), BMul(a.den, b.den))

\* a / b for b # 0
RDiv(a, b) == Rat(a.neg # b.neg, BMul(a.num, b.den), BMul(a.den, b.num))

\* -1, 0, 1 as a < b, a = b, a > b
RCmp(a, b) ==
    LET d == RSub(a, b)
    IN  IF d.num = <<>> THEN 0 ELSE IF d.neg THEN -1 ELSE 1

REq(a, b) == RCmp(a, b) = 0
RLeq(a, b) == RCmp(a, b) <= 0

\* Math.max, Math.min, Math.abs
MathMax(a, b) == IF RCmp(a, b) >= 0 THEN a ELSE b
MathMin(a, b) == IF RCmp(a, b) <= 0 THEN a ELSE b
MathAbs(a) == Rat(FALSE, a.num, a.den)

\* Math.floor
MathFloor(a) ==
    LET dm == BDivMod(a.num, a.den)
    IN  IF ~a.neg THEN ROfNat(dm.q)
        ELSE IF dm.r = 0 THEN Rat(TRUE, dm.q, <<1>>)
        ELSE Rat(TRUE, BAdd(dm.q, <<1>>), <<1>>)

\* a plausible slip: truncation instead of rounding
MathRoundTruncates(a) == MathFloor(a)

\* Math.round: the nearest integer, halves towards +infinity
MathRound(a) == MathFloor(RAdd(a, RFrac(1, 2)))

\* Math.pow(2, n)
MathPow2(n) == ROfNat(BPow2(n))

---------------------------------------------------------------------------
(* utils/audioUtils *)

\* bitDepth at which quantizeValue leaves the value alone
FloatBits == 32

\* Math.max(0, Math.min(1, normalized))
Clamp(normalized) == MathMax(ROfInt(0), MathMin(ROfInt(1), normalized))

\* Math.round(normalized * maxVal) of the clamped (value + 1) / 2
DiscreteCode(value, bits) ==
    LET levels == MathPow2(bits)
        maxVal == RSub(levels, ROfInt(1))
        normalized == Clamp(RDiv(RAdd(value, ROfInt(1)), ROfInt(2)))
    IN  MathRound(RMul(normalized, maxVal))

quantizeValue(value, bits) ==
    IF bits >= FloatBits THEN value
    ELSE LET levels == MathPow2(bits)
             maxVal == RSub(levels, ROfInt(1))
             discrete == DiscreteCode(value, bits)
             quantizedNorm == RDiv(discrete, maxVal)
         IN  RSub(RMul(quantizedNorm, ROfInt(2)), ROfInt(1))

getQuantizationError(original, quantized) == MathAbs(RSub(original, quantized))

\* Number.prototype.toString(2) of a natural: its binary digits, most
\* significant first, "0" for zero
LimbBits(x) ==
    [p \in 1..(15 * Len(x)) |->
        LET limb == x[Len(x) - ((p - 1) \div 15)]
        IN  (limb \div 2^(14 - ((p - 1) % 15))) % 2]

ToString2(x) ==
    IF x = <<>> THEN <<0>>
    ELSE LET bits  == LimbBits(x)
             first == CHOOSE p \in 1..Len(bits) :
                          /\ bits[p] = 1
                          /\ \A q \in 1..(p - 1) : bits[q] = 0
         IN  SubSeq(bits, first, Len(bits))

\* String.prototype.padStart(width, '0')
PadStart(s, width) ==
    IF Len(s) >= width THEN s ELSE [j \in 1..(width - Len(s)) |-> 0] \o s

\* the string without its padding
formatBinaryUnpadded(value, bits) == ToString2(DiscreteCode(value, bits).num)

formatBinary(value, bits) ==
    PadStart(ToString2(DiscreteCode(value, bits).num), bits)

---------------------------------------------------------------------------
(* Harness: the functions of utils/audioUtils applied to one input *)

QuantBitDepths == (1..MaxBitDepth) \cup {4, 16, FloatBits - 1, FloatBits}
QuantValues == {RFrac(n, AmpDen) : n \in -(AmpDen + AmpOver)..(AmpDen + AmpOver)}

NoValue == ROfInt(0)

QuantInit ==
    /\ qValue \in QuantValues
    /\ qBits \in QuantBitDepths
    /\ qOut = NoValue
    /\ qErr = NoValue
    /\ qBin = <<>>
    /\ qPc = "input"

QuantizeCall ==
    /\ qPc = "input"
    /\ qOut' = quantizeValue(qValue, qBits)
    /\ qErr' = getQuantizationError(qValue, quantizeValue(qValue, qBits))
    /\ qPc' = "quantized"
    /\ UNCHANGED <<qValue, qBits, qBin>>
    /\ UNCHANGED <<hookVars, paramVars, toggleVars, canvasVars>>

FormatCall ==
    /\ qPc = "quantized"
    /\ qBin' = formatBinary(qValue, qBits)
    /\ qPc' = "formatted"
    /\ UNCHANGED <<qValue, qBits, qOut, qErr>>
    /\ UNCHANGED <<hookVars, paramVars, toggleVars, canvasVars>>

---------------------------------------------------------------------------
(* JavaScript numbers holding the loop variable: IEEE-754 doubles in       *)
(* [0, 2^26), every one of which is a multiple of 2^-52 once it is >= 1:   *)
(* [ip, fh, fl] is ip + fh / 2^26 + fl / 2^52                              *)

P26 == 2^26
P13 == 2^13

RECURSIVE BitLen(_)
BitLen(n) == IF n = 0 THEN 0 ELSE 1 + BitLen(n \div 2)

DblOfInt(n) == [ip |-> n, fh |-> 0, fl |-> 0]

\* ip + fh/2^26 + (fl + t)/2^52 rounded to 53 significant bits, to nearest,
\* ties to even; tail tells t = 0, 0 < t < 1/2, t = 1/2, t > 1/2 as 0..3
DblRound(ip, fh, fl, tail) ==
    LET drop == IF ip = 0 THEN 0 ELSE BitLen(ip) - 1
        unit == 2^drop
        low  == fl % unit
        kept == fl - low
        half == unit \div 2
        odd  == (kept \div unit) % 2 = 1
        up   == IF drop = 0
                THEN tail = 3 \/ (tail = 2 /\ odd)
                ELSE \/ low > half
                     \/ (low = half /\ tail > 0)
                     \/ (low = half /\ tail = 0 /\ odd)
        fl1  == IF up THEN kept + unit ELSE kept
        fh1  == fh + (fl1 \div P26)
    IN  [ip |-> ip + (fh1 \div P26), fh |-> fh1 % P26, fl |-> fl1 % P26]

\* x + y
DblAdd(x, y) ==
    LET fl == x.fl + y.fl
        fh == x.fh + y.fh + (fl \div P26)
    IN  DblRound(x.ip + y.ip + (fh \div P26), fh % P26, fl % P26, 0)

\* a / b for integers a >= b >= 1 below 2^16: four quotient digits of 13
\* bits give the 52 fraction bits, the last remainder the tail
DblDiv(a, b) ==
    LET r0 == a % b
        d1 == (r0 * P13) \div b
        r1 == (r0 * P13) % b
        d2 == (r1 * P13) \div b
        r2 == (r1 * P13) % b
        d3 == (r2 * P13) \div b
        r3 == (r2 * P13) % b
        d4 == (r3 * P13) \div b
        r4 == (r3 * P13) % b
        tail == IF r4 = 0 THEN 0
                ELSE IF 2 * r4 < b THEN 1
                ELSE IF 2 * r4 = b THEN 2 ELSE 3
    IN  DblRound(a \div b, d1 * P13 + d2, d3 * P13 + d4, tail)

\* Math.floor of a double
DblFloor(x) == x.ip

\* x < n for an integer n
DblLess(x, n) == x.ip < n

---------------------------------------------------------------------------
(* Files the user can pick and the AudioBuffer each decodes to.  A decoded *)
(* buffer is named by its file.                                            *)

NoBuffer == "null"
AudioFiles == {"click", "tone", "clip"}
Files == AudioFiles \cup {"corrupt"}

\* whether audioContext.decodeAudioData resolves for the file
Decodable(f) == f \in AudioFiles

\* audioBuffer.getChannelData(0).length
BufLength(b) ==
    CASE b = "click" -> ClickLen
      [] b = "tone"  -> ToneLen
      [] OTHER       -> ClipLen

\* audioBuffer.sampleRate
BufSampleRate(b) == IF b = "tone" THEN 48000 ELSE 44100

\* data[idx]: a triangle wave over the multiples of 1/AmpDen in [-1, 1]
Sample(b, idx) ==
    LET pitch == CASE b = "click" -> 3 [] b = "tone" -> 1 [] OTHER -> 5
        t == (idx * pitch) % (4 * AmpDen)
    IN  RFrac(IF t <= 2 * AmpDen THEN t - AmpDen ELSE 3 * AmpDen - t, AmpDen)

---------------------------------------------------------------------------
(* App: parameters and their controls *)

DefaultSampleRate == 5000
DefaultBitDepth == 4
DefaultZoom == 50

\* values of the sliders that are explored
SampleRateChoices == {500, DefaultSampleRate, 44100}
BitDepthChoices == (1..MaxBitDepth) \cup {DefaultBitDepth}
ZoomChoices == {1, DefaultZoom, 500}

CanvasWidth == 800
CanvasHeight == 400

---------------------------------------------------------------------------
(* WaveformCanvas: the quantities of one run of the drawing effect *)

TimeOffset == 0
DrawBudget == 2000
GridMaxBits == 5

\* Math.floor(data.length / zoom)
WindowSize == BufLength(audioBuffer) \div zoom

\* Math.max(1, Math.floor(windowSize / 2000))
DrawStep ==
    IF WindowSize \div DrawBudget >= 1 THEN WindowSize \div DrawBudget ELSE 1

\* Math.max(1, realRate / sampleRateCtx): the quotient is below 1 exactly
\* when realRate < sampleRateCtx
Skip ==
    IF BufSampleRate(audioBuffer) < sampleRateCtx THEN DblOfInt(1)
    ELSE DblDiv(BufSampleRate(audioBuffer), sampleRateCtx)

\* height / 2 - (amp * height / 2)
ampToY(amp) ==
    RSub(RDiv(ROfInt(CanvasHeight), ROfInt(2)),
         RDiv(RMul(amp, ROfInt(CanvasHeight)), ROfInt(2)))

\* x = pos * sliceWidth with sliceWidth = width / windowSize is kept as the
\* pair it is computed from
XPos(pos) == [at |-> pos, of |-> WindowSize]

\* Math.min(width, nextI * sliceWidth): nextI * sliceWidth reaches width
\* exactly when nextI reaches windowSize
HoldEnd(nextI) ==
    IF DblLess(nextI, WindowSize) THEN XPos(nextI) ELSE XPos(DblOfInt(WindowSize))

Nothing == [none |-> TRUE]
NoRead == -1

\* the body of the sampling loop at loop variable pos (lines 130-184) under
\* the toggles sS, sQ, sE; nothing is drawn when the loop is not entered
SampleDrawn(sS, sQ, sE, pos) ==
    LET idx == DblFloor(pos) + TimeOffset
        originalVal == Sample(audioBuffer, idx)
        finalVal == IF sQ THEN quantizeValue(originalVal, bitDepth)
                    ELSE originalVal
        x == XPos(pos)
        y == ampToY(finalVal)
        entered == sS \/ sQ
    IN  [kind |-> "sample", pos |-> pos, idx |-> idx,
         original |-> originalVal, final |-> finalVal,
         stick |-> IF entered /\ sS THEN [x |-> x, y |-> y] ELSE Nothing,
         hold  |-> IF entered /\ sQ
                   THEN [x |-> x, y |-> y, x2 |-> HoldEnd(DblAdd(pos, Skip))]
                   ELSE Nothing,
         err   |-> IF entered /\ sE
                   THEN [x |-> x, y |-> ampToY(originalVal), y2 |-> y]
                   ELSE Nothing]

\* where the effect goes after the analog layer
AfterAnalog == IF showSampling \/ showQuantization THEN "sampling" ELSE "idle"

\* lines 31-86: clear, placeholder or grid and zero line
Effect ==
    /\ pc = "effect"
    /\ i' = DblOfInt(0)
    /\ k' = 0
    /\ read' = NoRead
    /\ IF audioBuffer = NoBuffer
       THEN /\ drawn' = [kind |-> "placeholder"]
            /\ pc' = "idle"
       ELSE /\ drawn' = [kind |-> "background",
                         gridLines |-> IF showQuantization /\ bitDepth <= GridMaxBits
                                       THEN 2^bitDepth + 1 ELSE 0]
            /\ pc' = IF showAnalog THEN "analog" ELSE AfterAnalog
    /\ UNCHANGED <<quantVars, hookVars, paramVars, toggleVars>>

\* the condition of both for loops with the break of their first lines
LoopContinues ==
    /\ DblLess(i, WindowSize)
    /\ DblFloor(i) + TimeOffset < BufLength(audioBuffer)

\* lines 101-112: one iteration of the analog loop
AnalogStep ==
    /\ pc = "analog"
    /\ LoopContinues
    /\ read' = DblFloor(i) + TimeOffset
    /\ drawn' = [kind |-> "analog", x |-> XPos(i),
                 y |-> ampToY(Sample(audioBuffer, DblFloor(i) + TimeOffset))]
    /\ i' = DblAdd(i, DblOfInt(DrawStep))
    /\ k' = k + 1
    /\ UNCHANGED <<pc, quantVars, hookVars, paramVars, toggleVars>>

AnalogExit ==
    /\ pc = "analog"
    /\ ~LoopContinues
    /\ pc' = AfterAnalog
    /\ i' = DblOfInt(0)
    /\ k' = 0
    /\ UNCHANGED <<read, drawn, quantVars, hookVars, paramVars, toggleVars>>

\* lines 129-185: one iteration of the sampling loop
SamplingStep ==
    /\ pc = "sampling"
    /\ LoopContinues
    /\ read' = DblFloor(i) + TimeOffset
    /\ drawn' = SampleDrawn(showSampling, showQuantization, showError, i)
    /\ i' = DblAdd(i, Skip)
    /\ k' = k + 1
    /\ UNCHANGED <<pc, quantVars, hookVars, paramVars, toggleVars>>

SamplingExit ==
    /\ pc = "sampling"
    /\ ~LoopContinues
    /\ pc' = "idle"
    /\ UNCHANGED <<i, k, read, drawn, quantVars, hookVars, paramVars, toggleVars>>

Render == Effect \/ AnalogStep \/ AnalogExit \/ SamplingStep \/ SamplingExit

---------------------------------------------------------------------------
(* App: the controls.  A changed state re-renders the canvas and runs its  *)
(* effect again; a handler runs only between two effects.                  *)

SetSampleRateCtx(v) ==
    /\ pc = "idle"
    /\ v # sampleRateCtx
    /\ sampleRateCtx' = v
    /\ pc' = "effect"
    /\ UNCHANGED <<bitDepth, zoom, i, k, read, drawn, quantVars, hookVars, toggleVars>>

SetBitDepth(v) ==
    /\ pc = "idle"
    /\ v # bitDepth
    /\ bitDepth' = v
    /\ pc' = "effect"
    /\ UNCHANGED <<sampleRateCtx, zoom, i, k, read, drawn, quantVars, hookVars, toggleVars>>

SetZoom(v) ==
    /\ pc = "idle"
    /\ v # zoom
    /\ zoom' = v
    /\ pc' = "effect"
    /\ UNCHANGED <<sampleRateCtx, bitDepth, i, k, read, drawn, quantVars, hookVars, toggleVars>>

SetShowAnalog ==
    /\ pc = "idle"
    /\ showAnalog' = ~showAnalog
    /\ pc' = "effect"
    /\ UNCHANGED <<showSampling, showQuantization, showError>>
    /\ UNCHANGED <<i, k, read, drawn, quantVars, hookVars, paramVars>>

SetShowSampling ==
    /\ pc = "idle"
    /\ showSampling' = ~showSampling
    /\ pc' = "effect"
    /\ UNCHANGED <<showAnalog, showQuantization, showError>>
    /\ UNCHANGED <<i, k, read, drawn, quantVars, hookVars, paramVars>>

SetShowQuantization ==
    /\ pc = "idle"
    /\ showQuantization' = ~showQuantization
    /\ pc' = "effect"
    /\ UNCHANGED <<showAnalog, showSampling, showError>>
    /\ UNCHANGED <<i, k, read, drawn, quantVars, hookVars, paramVars>>

SetShowError ==
    /\ pc = "idle"
    /\ showError' = ~showError
    /\ pc' = "effect"
    /\ UNCHANGED <<showAnalog, showSampling, showQuantization>>
    /\ UNCHANGED <<i, k, read, drawn, quantVars, hookVars, paramVars>>

\* one row of the Encoding Data Preview, or NoRow where the map returns null
NoRow == [none |-> TRUE]
TableRowCount == 20

TableRow(row) ==
    LET realRate == BufSampleRate(audioBuffer)
        skip == IF realRate \div sampleRateCtx >= 1
                THEN realRate \div sampleRateCtx ELSE 1
        idx == row * skip
        val == Sample(audioBuffer, idx)
    IN  IF idx >= BufLength(audioBuffer) THEN NoRow
        ELSE [index |-> row, idx |-> idx, time |-> RFrac(idx, realRate),
              original |-> val, quantized |-> quantizeValue(val, bitDepth)]

---------------------------------------------------------------------------
(* useAudioProcessor.loadFile: each call is a request that awaits          *)
(* file.arrayBuffer(), then decodeAudioData, inside one try block.         *)
(* before / after / overtaken record the buffer at the call, the buffer    *)
(* when the call completed, and whether another call's decode completed    *)
(* in between.                                                             *)

\* files a user picks in the file input
UploadFiles == {"click", "tone", "corrupt"}

\* a catch block that drops the buffer
loadFileCatchClears(buffer) == NoBuffer

\* the catch block: console.error, the state is left alone
loadFileCatch(buffer) == buffer

Overtake(reqs, r) ==
    [j \in 1..Len(reqs) |->
        IF j # r /\ reqs[j].status \in {"reading", "decoding"}
        THEN [reqs[j] EXCEPT !.overtaken = TRUE] ELSE reqs[j]]

\* handleFileUpload -> loadFile(file), up to the first await
LoadFile(f) ==
    /\ pc = "idle"
    /\ Len(requests) < MaxLoads
    /\ requests' = Append(requests,
           [file |-> f, status |-> "reading", before |-> audioBuffer,
            after |-> NoBuffer, overtaken |-> FALSE])
    /\ UNCHANGED <<audioBuffer, isPlaying, sourceNodeRef, sources>>
    /\ UNCHANGED <<quantVars, paramVars, toggleVars, canvasVars>>

\* file.arrayBuffer() resolves
ReadDone(r) ==
    /\ pc = "idle"
    /\ requests[r].status = "reading"
    /\ requests' = [requests EXCEPT ![r].status = "decoding"]
    /\ UNCHANGED <<audioBuffer, isPlaying, sourceNodeRef, sources>>
    /\ UNCHANGED <<quantVars, paramVars, toggleVars, canvasVars>>

\* an await of the try block rejects and the catch block runs
Caught(r) ==
    /\ audioBuffer' = loadFileCatch(audioBuffer)
    /\ requests' = [requests EXCEPT ![r].status = "caught",
                                    ![r].after = loadFileCatch(audioBuffer)]
    /\ pc' = IF loadFileCatch(audioBuffer) # audioBuffer THEN "effect" ELSE pc
    /\ UNCHANGED <<isPlaying, sourceNodeRef, sources>>
    /\ UNCHANGED <<quantVars, paramVars, toggleVars, i, k, read, drawn>>

\* file.arrayBuffer() rejects
ReadFail(r) ==
    /\ pc = "idle"
    /\ requests[r].status = "reading"
    /\ Caught(r)

\* decodeAudioData rejects
DecodeFail(r) ==
    /\ pc = "idle"
    /\ requests[r].status = "decoding"
    /\ ~Decodable(requests[r].file)
    /\ Caught(r)

\* decodeAudioData resolves: setAudioBuffer(decodedBuffer)
DecodeDone(r) ==
    /\ pc = "idle"
    /\ requests[r].status = "decoding"
    /\ Decodable(requests[r].file)
    /\ audioBuffer' = requests[r].file
    /\ requests' = Overtake([requests EXCEPT ![r].status = "loaded",
                                             ![r].after = requests[r].file], r)
    /\ pc' = "effect"
    /\ UNCHANGED <<isPlaying, sourceNodeRef, sources>>
    /\ UNCHANGED <<quantVars, paramVars, toggleVars, i, k, read, drawn>>

---------------------------------------------------------------------------
(* useAudioProcessor.play / stop and the button of App.  A source node is  *)
(* "playing", then "stopped" once stop() was called on it (its ended event *)
(* is queued), then "ended" once its onended handler has run.              *)

\* AudioBufferSourceNode.stop(): a playing node stops, any other is left
StopNode(nodes, n) ==
    IF n # 0 /\ nodes[n] = "playing" THEN [nodes EXCEPT ![n] = "stopped"]
    ELSE nodes

\* the button while isPlaying is false: play()
ClickPlay ==
    /\ pc = "idle"
    /\ audioBuffer # NoBuffer
    /\ ~isPlaying
    /\ Len(sources) < MaxSources
    /\ sources' = Append(StopNode(sources, sourceNodeRef), "playing")
    /\ sourceNodeRef' = Len(sources) + 1
    /\ isPlaying' = TRUE
    /\ UNCHANGED <<audioBuffer, requests>>
    /\ UNCHANGED <<quantVars, paramVars, toggleVars, canvasVars>>

\* the button while isPlaying is true: stop()
ClickStop ==
    /\ pc = "idle"
    /\ audioBuffer # NoBuffer
    /\ isPlaying
    /\ sources' = StopNode(sources, sourceNodeRef)
    /\ isPlaying' = IF sourceNodeRef # 0 THEN FALSE ELSE isPlaying
    /\ UNCHANGED <<audioBuffer, requests, sourceNodeRef>>
    /\ UNCHANGED <<quantVars, paramVars, toggleVars, canvasVars>>

\* the buffer has played to its end: the node's ended event runs onended
PlayedToEnd(n) ==
    /\ pc = "idle"
    /\ sources[n] = "playing"
    /\ sources' = [sources EXCEPT ![n] = "ended"]
    /\ isPlaying' = FALSE
    /\ UNCHANGED <<audioBuffer, requests, sourceNodeRef>>
    /\ UNCHANGED <<quantVars, paramVars, toggleVars, canvasVars>>

\* the ended event of a stopped node runs onended
EndedEvent(n) ==
    /\ pc = "idle"
    /\ sources[n] = "stopped"
    /\ sources' = [sources EXCEPT ![n] = "ended"]
    /\ isPlaying' = FALSE
    /\ UNCHANGED <<audioBuffer, requests, sourceNodeRef>>
    /\ UNCHANGED <<quantVars, paramVars, toggleVars, canvasVars>>

---------------------------------------------------------------------------
(* Specifications *)

QuantIdle ==
    /\ qValue = NoValue /\ qBits = DefaultBitDepth
    /\ qOut = NoValue /\ qErr = NoValue /\ qBin = <<>> /\ qPc = "formatted"

HookInit ==
    /\ isPlaying = FALSE
    /\ sourceNodeRef = 0
    /\ sources = <<>>
    /\ requests = <<>>

AppInit ==
    /\ sampleRateCtx = DefaultSampleRate
    /\ bitDepth = DefaultBitDepth
    /\ zoom = DefaultZoom
    /\ showAnalog = TRUE
    /\ showSampling = TRUE
    /\ showQuantization = TRUE
    /\ showError = FALSE

CanvasInit ==
    /\ pc = "effect"
    /\ i = DblOfInt(0)
    /\ k = 0
    /\ read = NoRead
    /\ drawn = [kind |-> "none"]

\* the functions of utils/audioUtils on every input of the bounded sets
InitQuant == QuantInit /\ HookInit /\ audioBuffer = NoBuffer /\ AppInit /\ CanvasInit
NextQuant == QuantizeCall \/ FormatCall
SpecQuant == InitQuant /\ [][NextQuant]_vars

\* the hook and the button, with the canvas drawing each decoded buffer
InitAudio == QuantIdle /\ HookInit /\ audioBuffer = NoBuffer /\ AppInit /\ CanvasInit
NextAudio ==
    \/ \E f \in UploadFiles : LoadFile(f)
    \/ \E r \in 1..Len(requests) : ReadDone(r)
    \/ \E r \in 1..Len(requests) : ReadFail(r)
    \/ \E r \in 1..Len(requests) : DecodeFail(r)
    \/ \E r \in 1..Len(requests) : DecodeDone(r)
    \/ ClickPlay
    \/ ClickStop
    \/ \E n \in 1..Len(sources) : PlayedToEnd(n)
    \/ \E n \in 1..Len(sources) : EndedEvent(n)
    \/ Render
SpecAudio == InitAudio /\ [][NextAudio]_vars

\* the canvas and the controls over a buffer that has been loaded
InitRender ==
    /\ QuantIdle /\ HookInit /\ AppInit /\ CanvasInit
    /\ audioBuffer \in AudioFiles \cup {NoBuffer}
NextRender ==
    \/ \E v \in SampleRateChoices : SetSampleRateCtx(v)
    \/ \E v \in BitDepthChoices : SetBitDepth(v)
    \/ \E v \in ZoomChoices : SetZoom(v)
    \/ SetShowAnalog
    \/ SetShowSampling
    \/ SetShowQuantization
    \/ SetShowError
    \/ Render
SpecRender == InitRender /\ [][NextRender]_vars

---------------------------------------------------------------------------
(* Properties of utils/audioUtils, checked under SpecQuant *)

InRange(v) == RLeq(ROfInt(-1), v) /\ RLeq(v, ROfInt(1))

\* the level -1 + 2c / (2^bits - 1) of the code c, a natural
LevelOf(c, bits) ==
    RSub(RDiv(RMul(ROfInt(2), ROfNat(c)), RSub(MathPow2(bits), ROfInt(1))),
         ROfInt(1))

\* the codes whose levels can lie within one step of v: the code below the
\* exact position (v + 1) / 2 * (2^bits - 1) of v, its two neighbours above
\* and its neighbour below
CodesNear(v, bits) ==
    LET maxVal == RSub(MathPow2(bits), ROfInt(1))
        below  == MathFloor(RMul(RDiv(RAdd(v, ROfInt(1)), ROfInt(2)), maxVal)).num
    IN  {c \in {below, BAdd(below, <<1>>), BAdd(below, <<2>>),
                IF below = <<>> THEN <<>> ELSE BSub(below, <<1>>)} :
            BCmp(c, maxVal.num) <= 0}

\* C1: for an amplitude in [-1, 1] and a bit depth in 1..31 the result of
\* quantizeValue is one of the 2^bitDepth levels -1 + 2k / (2^bitDepth - 1),
\* k in 0..2^bitDepth - 1, and lies within 1 / (2^bitDepth - 1) of the
\* amplitude; getQuantizationError is that distance.  (A level that close to
\* the amplitude has its code among CodesNear.)
C1_QuantizedIsNearLevel ==
    (qPc # "input" /\ InRange(qValue) /\ qBits \in 1..(FloatBits - 1)) =>
        /\ \E c \in CodesNear(qValue, qBits) : REq(qOut, LevelOf(c, qBits))
        /\ REq(qErr, MathAbs(RSub(qOut, qValue)))
        /\ RLeq(qErr, RDiv(ROfInt(1), RSub(MathPow2(qBits), ROfInt(1))))

\* a 31-bit quantization that moved the amplitude
C1_Witness ==
    /\ qPc = "quantized" /\ qBits = FloatBits - 1 /\ InRange(qValue)
    /\ ~REq(qOut, qValue)

\* parseInt(digits, 2): the limbs of the natural the digits spell
RECURSIVE DigitsValue(_, _, _)
DigitsValue(digits, from, n) ==
    IF n = 0 \/ from < 1 THEN 0
    ELSE digits[from] + 2 * DigitsValue(digits, from - 1, n - 1)

ParseBinary(digits) ==
    BNorm([j \in 1..((Len(digits) + 14) \div 15) |->
              DigitsValue(digits, Len(digits) - 15 * (j - 1), 15)])

RoundTrips(bits) ==
    /\ Len(qBin) = bits
    /\ \A p \in 1..Len(qBin) : qBin[p] \in {0, 1}
    /\ REq(LevelOf(ParseBinary(qBin), bits), qOut)
    /\ (ParseBinary(qBin) = <<>>) = REq(qOut, ROfInt(-1))

\* C7 as amended: for every amplitude and every bit depth in 1..31,
\* formatBinary yields exactly bitDepth binary digits whose value c, rescaled
\* as 2c / (2^bitDepth - 1) - 1, is the result of quantizeValue; the code 0
\* is the level -1.
C7_BinaryRoundTripsBelow32 ==
    (qPc = "formatted" /\ qValue # NoValue /\ qBits \in 1..(FloatBits - 1))
        => RoundTrips(qBits)

\* C7 as stated: the same for every bit depth in 1..32
C7_BinaryRoundTrips ==
    (qPc = "formatted" /\ qValue # NoValue /\ qBits \in 1..FloatBits)
        => RoundTrips(qBits)

\* a 31-bit code that was padded on the left and is not zero
C7_Witness ==
    /\ qPc = "formatted" /\ qBits = FloatBits - 1
    /\ Len(qBin) = qBits /\ qBin[1] = 0 /\ ParseBinary(qBin) # <<>>

---------------------------------------------------------------------------
(* Properties of useAudioProcessor, checked under SpecAudio *)

\* the calls of loadFile whose catch block has run
Failed == {r \in 1..Len(requests) : requests[r].status = "caught"}

\* this step is the catch block of call r
Catches(r) == requests[r].status # "caught" /\ requests'[r].status = "caught"

\* this step is setAudioBuffer(decodedBuffer) of call r
Decodes(r) ==
    /\ requests[r].status = "decoding" /\ requests'[r].status = "loaded"
    /\ Decodable(requests[r].file)
    /\ audioBuffer' = requests[r].file

\* C8 as amended: a call of loadFile that fails ends in its catch block (the
\* failure is not propagated) and does not itself change audioBuffer: the
\* buffer after the failure is the one before the call unless the decode of
\* another call completed in between; audioBuffer only ever changes to the
\* result of a successful decode.
C8_FailedLoadChangesNothing ==
    /\ [](\A r \in Failed :
            ~requests[r].overtaken => requests[r].after = requests[r].before)
    /\ [][/\ \A r \in 1..Len(requests) : Catches(r) => audioBuffer' = audioBuffer
          /\ audioBuffer' # audioBuffer => \E r \in 1..Len(requests) : Decodes(r)
         ]_vars

\* C8 as stated: after a failed loadFile audioBuffer holds the value it had
\* before the call
C8_FailedLoadKeepsCallTimeBuffer ==
    \A r \in Failed : requests[r].after = requests[r].before

\* a load failed while a buffer decoded earlier was on display
C8_Witness ==
    \E r \in Failed :
        /\ requests[r].before # NoBuffer /\ ~requests[r].overtaken
        /\ audioBuffer = requests[r].before

\* C9: isPlaying is true exactly when the most recently started source node
\* is still playing, so the ended callback of an earlier, stopped source
\* never clears isPlaying under a newer source that is playing.
C9_IsPlayingTracksNewestSource ==
    isPlaying = (Len(sources) > 0 /\ sources[Len(sources)] = "playing")

\* C10: once every requested decode has completed successfully, audioBuffer
\* holds the buffer of the file requested last, in whatever order the
\* decodes completed.
C10_LastRequestedFileWins ==
    (/\ Len(requests) >= 2
     /\ \A r \in 1..Len(requests) : requests[r].status = "loaded")
        => audioBuffer = requests[Len(requests)].file

---------------------------------------------------------------------------
(* Properties of WaveformCanvas and the preview table, checked under       *)
(* SpecRender                                                              *)

\* the last thing drawn is point k - 1 of the sampling loop of this render
PointDrawn == pc \in {"sampling", "idle"} /\ drawn.kind = "sample"

\* C2: every rendered row i of the preview table and the i-th point visited
\* by the sampling loop of the canvas (quantization displayed) refer to the
\* same sample index and carry the same time, original amplitude and
\* quantized amplitude.
C2_TableRowIsCanvasPoint ==
    (/\ PointDrawn /\ showQuantization
     /\ k - 1 < TableRowCount /\ TableRow(k - 1) # NoRow) =>
        /\ TableRow(k - 1).idx = drawn.idx
        /\ REq(TableRow(k - 1).time,
               RFrac(drawn.idx, BufSampleRate(audioBuffer)))
        /\ REq(TableRow(k - 1).original, drawn.original)
        /\ REq(TableRow(k - 1).quantized, drawn.final)

\* floor(n * s) for the stride s = max(1, realRate / sampleRateCtx)
StrideMultiple(n) ==
    IF BufSampleRate(audioBuffer) <= sampleRateCtx THEN n
    ELSE (n * BufSampleRate(audioBuffer)) \div sampleRateCtx

\* ceil(windowSize / s)
StrideCount ==
    IF BufSampleRate(audioBuffer) <= sampleRateCtx THEN WindowSize
    ELSE (WindowSize * sampleRateCtx + BufSampleRate(audioBuffer) - 1)
             \div BufSampleRate(audioBuffer)

\* C3: with the stride s = max(1, realRate / sampleRateCtx), never below 1,
\* the sampling loop visits exactly the indices floor(k * s), k = 0, 1, ...
\* while k * s < windowSize, that is ceil(windowSize / s) points.
C3_SamplingVisitsStrideMultiples ==
    /\ audioBuffer # NoBuffer => Skip.ip >= 1
    /\ PointDrawn => drawn.idx = StrideMultiple(k - 1)
    /\ (/\ pc = "idle" /\ audioBuffer # NoBuffer
        /\ (showSampling \/ showQuantization)) => k = StrideCount

SameNumber(a, b) == IF a = Nothing \/ b = Nothing THEN a = b ELSE REq(a, b)

Field(p, f) == IF f \in DOMAIN p THEN p[f] ELSE Nothing

\* two drawing primitives at the same canvas positions
SamePrimitive(p, q) ==
    /\ DOMAIN p = DOMAIN q
    /\ Field(p, "x") = Field(q, "x")
    /\ Field(p, "x2") = Field(q, "x2")
    /\ SameNumber(Field(p, "y"), Field(q, "y"))
    /\ SameNumber(Field(p, "y2"), Field(q, "y2"))

\* the toggles with one of them flipped
Flip(t) ==
    [sampling     |-> IF t = "sampling" THEN ~showSampling ELSE showSampling,
     quantization |-> IF t = "quantization" THEN ~showQuantization
                      ELSE showQuantization,
     error        |-> IF t = "error" THEN ~showError ELSE showError]

\* C4: flipping one layer toggle leaves every other enabled layer drawn at
\* the same points and positions: at each point of the sampling loop the
\* stick, the hold segment and the error segment that are enabled before and
\* after the flip are the same primitives.
C4_TogglesLeaveOtherLayers ==
    PointDrawn =>
        \A t \in {"sampling", "quantization", "error"} :
            LET alt == SampleDrawn(Flip(t).sampling, Flip(t).quantization,
                                   Flip(t).error, drawn.pos)
            IN  /\ (t # "sampling" /\ showSampling)
                       => SamePrimitive(drawn.stick, alt.stick)
                /\ (t # "quantization" /\ showQuantization)
                       => SamePrimitive(drawn.hold, alt.hold)
                /\ (t # "error" /\ showError)
                       => SamePrimitive(drawn.err, alt.err)

\* C5: the stride of the analog curve is at most the stride of the sampling
\* loop (drawStep is an integer, so drawStep <= skip iff drawStep <=
\* floor(skip)).
C5_DrawStepAtMostSkip ==
    (audioBuffer # NoBuffer /\ pc = "analog") => DrawStep <= DblFloor(Skip)

\* C6: the window of every render of a loaded buffer is well formed:
\* timeOffset >= 0, windowSize is positive (the divisor of sliceWidth),
\* timeOffset + windowSize <= length, and every index read is in the buffer.
C6_RenderWindowWellFormed ==
    (audioBuffer # NoBuffer /\ pc \in {"analog", "sampling"}) =>
        /\ TimeOffset >= 0
        /\ WindowSize >= 1
        /\ TimeOffset + WindowSize <= BufLength(audioBuffer)
        /\ read = NoRead \/ read \in 0..(BufLength(audioBuffer) - 1)

=============================================================================
